---- MODULE Spec2Model ----
(***************************************************************************)
(* Model of the simulation core of tower_def (src/src/main.rs): the four   *)
(* per-frame systems tower_shooting, bullet_despawn, move_targets and      *)
(* move_bullets, the scene set-up, and the parts of the engine they rest   *)
(* on (Timer, deferred Commands, despawn_recursive, transform propagation).*)
(*                                                                         *)
(* Units.  Durations are bevy Durations (integers); one model time unit is *)
(* half a second, so 1.0 s = 2 and 2.5 s = 5.  f32 positions are modelled  *)
(* in fixed point, one position unit = 0.05, so 0.3 units/s = 3 position   *)
(* units per time unit and 2.5 units/s = 25.  A Vec3 is <<x, y, z>> or the *)
(* value NaN (all components NaN).                                         *)
(***************************************************************************)
EXTENDS Integers, Sequences, FiniteSets, TLC

\* ----------------------------------------------------------------- bounds
MaxTicks == 3
MaxDelta == 5

\* ------------------------------------------------------ program constants
ShootingSeconds == 2
LifetimeSeconds == 5
BulletSpeed == 25
TargetSpeed == 3
TargetHealth == 3
TargetRotation == 90

NoEntity == 0
\* A Vec3 whose components are NaN, and the None of an Option.
NaN == <<"NaN">>
None == <<>>
Some(x) == <<x>>
Unwrap(o) == o[1]

\* ------------------------------------------------------------------ Vec3
Vec3(x, y, z) == <<x, y, z>>
ZERO == Vec3(0, 0, 0)

VAdd(a, b) ==
    IF a = NaN \/ b = NaN THEN NaN ELSE Vec3(a[1] + b[1], a[2] + b[2], a[3] + b[3])

VSub(a, b) ==
    IF a = NaN \/ b = NaN THEN NaN ELSE Vec3(a[1] - b[1], a[2] - b[2], a[3] - b[3])

LengthSquared(a) == a[1] * a[1] + a[2] * a[2] + a[3] * a[3]

Abs(n) == IF n < 0 THEN -n ELSE n

\* Integer part of the square root.
Isqrt(n) == CHOOSE r \in 0..n : r * r <= n /\ n < (r + 1) * (r + 1)

\* Division truncated towards zero.
TruncDiv(a, b) == IF a >= 0 THEN a \div b ELSE -((-a) \div b)

\* FloatOrd(Vec3::distance(a, b)): sqrt is monotone, so the order of two
\* distances is the order of their squares.
DistanceKey(a, b) == LengthSquared(VSub(a, b))

\* direction.normalize() * speed * delta_seconds: the zero vector
\* normalizes to NaN (0 * (1/0)), and NaN times anything is NaN.
Displacement(direction, speed, dt) ==
    IF direction = NaN \/ direction = ZERO THEN NaN
    ELSE LET len == Isqrt(LengthSquared(direction))
         IN  Vec3(TruncDiv(direction[1] * speed * dt, len),
                  TruncDiv(direction[2] * speed * dt, len),
                  TruncDiv(direction[3] * speed * dt, len))

\* Quat::from_rotation_y(deg) applied to v, for quarter turns.
RotateY(deg, v) ==
    IF v = NaN THEN NaN
    ELSE CASE deg % 360 = 0   -> v
           [] deg % 360 = 90  -> Vec3(v[3], v[2], -v[1])
           [] deg % 360 = 180 -> Vec3(-v[1], v[2], -v[3])
           [] OTHER           -> Vec3(-v[3], v[2], v[1])

FromTranslation(v) == [translation |-> v, rotation |-> 0]
IDENTITY == FromTranslation(ZERO)

\* ----------------------------------------------------------------- Timer
TimerFromSeconds(duration, repeating) ==
    [elapsed |-> 0, duration |-> duration, repeating |-> repeating,
     finished |-> FALSE, times_finished |-> 0]

TimerTick(t, d) ==
    IF ~t.repeating /\ t.finished
    THEN [t EXCEPT !.times_finished = 0]
    ELSE LET e == t.elapsed + d
         IN  IF e >= t.duration
             THEN IF t.repeating
                  THEN LET n == e \div t.duration
                       IN  [t EXCEPT !.elapsed = e - n * t.duration,
                                     !.finished = TRUE,
                                     !.times_finished = n]
                  ELSE [t EXCEPT !.elapsed = t.duration,
                                 !.finished = TRUE,
                                 !.times_finished = 1]
             ELSE [t EXCEPT !.elapsed = e,
                            !.finished = FALSE,
                            !.times_finished = 0]

JustFinished(t) == t.times_finished > 0


\* -------------------------------------------------------------- helpers
Empty == [x \in {} |-> 0]

Restrict(f, S) == [x \in (DOMAIN f) \cap S |-> f[x]]

Extend(f, g) == [x \in (DOMAIN f) \cup (DOMAIN g) |-> IF x \in DOMAIN g THEN g[x] ELSE f[x]]

Min(S) == CHOOSE x \in S : \A y \in S : x <= y

\* The elements of a set of entity ids in ascending order: the order in
\* which a query iterates (entities of one archetype, none swapped out).
RECURSIVE Ascending(_)
Ascending(S) ==
    IF S = {} THEN <<>> ELSE <<Min(S)>> \o Ascending(S \ {Min(S)})

Range(s) == {s[i] : i \in DOMAIN s}

\* ------------------------------------------------------------------ state
VARIABLES
    entities,    \* the live entity ids
    parent,      \* entity -> its Parent, or NoEntity
    transform,   \* entity -> Transform (local)
    global,      \* entity -> GlobalTransform (as of the last propagation)
    towerBase,   \* the entities carrying TowerBase
    tower,       \* entity -> Tower
    target,      \* entity -> Target
    health,      \* entity -> Health
    bullet,      \* entity -> Bullet
    lifetime,    \* entity -> Lifetime
    commands,    \* system -> its queue of deferred Commands
    nextId,      \* the next entity id to reserve
    phase,       \* "Setup", "Idle", "Update" or "PostUpdate"
    delta,       \* Time::delta of the current frame
    tick,        \* frames begun
    ran,         \* the systems that have completed in the current frame
    towerIdx,    \* tower_shooting's position in its loop over the towers
    hist         \* history: what the systems did, for stating properties

world == <<entities, parent, transform, global, towerBase, tower, target,
           health, bullet, lifetime>>
frame == <<phase, delta, tick>>
vars == <<entities, parent, transform, global, towerBase, tower, target,
          health, bullet, lifetime, commands, nextId, phase, delta, tick,
          ran, towerIdx, hist>>

Systems == {"tower_shooting", "bullet_despawn", "move_targets", "move_bullets"}

Deltas == 0..MaxDelta

\* Scenes a designer may author: translations of the Targets and of the
\* TowerBases.  The first is the scene of spawn_basic_scene.
Scenes ==
    { [targets |-> <<Vec3(-40, 10, 30)>>, bases |-> <<Vec3(0, 15, 0)>>],
      [targets |-> <<>>, bases |-> <<Vec3(0, 15, 0)>>],
      [targets |-> <<Vec3(-3, 25, 8), Vec3(-3, 25, -8)>>,
       bases |-> <<Vec3(0, 15, 0)>>],
      [targets |-> <<Vec3(-9, 25, 16), Vec3(-3, 25, 0), Vec3(20, 15, 4)>>,
       bases |-> <<Vec3(0, 15, 0), Vec3(20, 15, 0)>>] }

BasicScene == [targets |-> <<Vec3(-40, 10, 30)>>, bases |-> <<Vec3(0, 15, 0)>>]

EmptyCommands == [s \in {"tower_shooting", "bullet_despawn"} |-> <<>>]

InitHist ==
    [age |-> Empty, issued |-> Empty, expiredTick |-> Empty,
     observed |-> {}, gone |-> {}, preMotion |-> Empty, fired |-> {}]

\* Mutant of spawn_basic_scene: every TowerBase is spawned with a Tower
\* component on it, as if the barrel were attached at set-up.
spawn_basic_scene_armed(sc) ==
    LET nt == Len(sc.targets)
        nb == Len(sc.bases)
        ts == 1..nt
        bs == (nt + 1)..(nt + nb)
        tr == [e \in ts \cup bs |->
                 IF e \in ts
                 THEN [translation |-> sc.targets[e], rotation |-> TargetRotation]
                 ELSE FromTranslation(sc.bases[e - nt])]
    IN  /\ entities = ts \cup bs
        /\ parent = [e \in ts \cup bs |-> NoEntity]
        /\ transform = tr
        /\ global = tr
        /\ towerBase = bs
        /\ tower = [e \in bs |->
                      [shooting_timer |-> TimerFromSeconds(ShootingSeconds, TRUE),
                       bullet_offset |-> Vec3(0, 10, 0)]]
        /\ target = [e \in ts |-> [speed |-> TargetSpeed]]
        /\ health = [e \in ts |-> [value |-> TargetHealth]]
        /\ bullet = Empty
        /\ lifetime = Empty
        /\ nextId = nt + nb + 1

\* spawn_basic_scene on scene sc: the Targets, then the TowerBases.
spawn_basic_scene(sc) ==
    LET nt == Len(sc.targets)
        nb == Len(sc.bases)
        ts == 1..nt
        bs == (nt + 1)..(nt + nb)
        tr == [e \in ts \cup bs |->
                 IF e \in ts
                 THEN [translation |-> sc.targets[e], rotation |-> TargetRotation]
                 ELSE FromTranslation(sc.bases[e - nt])]
    IN  /\ entities = ts \cup bs
        /\ parent = [e \in ts \cup bs |-> NoEntity]
        /\ transform = tr
        /\ global = tr
        /\ towerBase = bs
        /\ tower = Empty
        /\ target = [e \in ts |-> [speed |-> TargetSpeed]]
        /\ health = [e \in ts |-> [value |-> TargetHealth]]
        /\ bullet = Empty
        /\ lifetime = Empty
        /\ nextId = nt + nb + 1

Init ==
    /\ \E sc \in Scenes : spawn_basic_scene(sc)
    /\ commands = EmptyCommands
    /\ phase = "Setup"
    /\ delta = 0
    /\ tick = 0
    /\ ran = {}
    /\ towerIdx = 1
    /\ hist = InitHist

\* Mutant of BarrelTower: the cooldown timer is created non-repeating.
BarrelTowerOnce ==
    [shooting_timer |-> TimerFromSeconds(ShootingSeconds, FALSE),
     bullet_offset |-> Vec3(0, 10, 0)]

\* The Tower that add_barrel spawns on a TowerBase.
BarrelTower ==
    [shooting_timer |-> TimerFromSeconds(ShootingSeconds, TRUE),
     bullet_offset |-> Vec3(0, 10, 0)]

\* add_barrel, run once on the scene: one Tower per TowerBase, at the
\* base's translation (its commands applied and its transform propagated).
add_barrel ==
    /\ phase = "Setup"
    /\ LET bs == Ascending(towerBase)
           new == nextId..(nextId + Len(bs) - 1)
           tr == [e \in new |-> FromTranslation(transform[bs[e - nextId + 1]].translation)]
       IN  /\ entities' = entities \cup new
           /\ parent' = Extend(parent, [e \in new |-> NoEntity])
           /\ transform' = Extend(transform, tr)
           /\ global' = Extend(global, tr)
           /\ tower' = Extend(tower, [e \in new |-> BarrelTower])
           /\ nextId' = nextId + Len(bs)
    /\ phase' = "Idle"
    /\ UNCHANGED <<towerBase, target, health, bullet, lifetime, commands,
                   delta, tick, ran, towerIdx, hist>>

\* ------------------------------------------------------------ the frame
Bullets == DOMAIN bullet
Targets == DOMAIN target
Towers == DOMAIN tower

Children(e) == {c \in entities : parent[c] = e}

\* The scene spawner (PreUpdate): every Bullet whose Bullet.glb scene is not
\* instantiated yet gets the scene's root as a child entity.
SceneLess == Ascending({b \in Bullets : Children(b) = {}})

\* A frame begins: Time is updated with the frame's delta and the scene
\* spawner runs; then the Update stage's systems may run.
scene_spawner ==
    LET bs == SceneLess
        new == nextId..(nextId + Len(bs) - 1)
    IN  /\ entities' = entities \cup new
        /\ parent' = Extend(parent, [e \in new |-> bs[e - nextId + 1]])
        /\ transform' = Extend(transform, [e \in new |-> IDENTITY])
        /\ global' = Extend(global, [e \in new |-> IDENTITY])

begin_frame(d) ==
    /\ phase = "Idle"
    /\ tick < MaxTicks
    /\ scene_spawner
    /\ nextId' = nextId + Len(SceneLess)
    /\ delta' = d
    /\ tick' = tick + 1
    /\ phase' = "Update"
    /\ ran' = {}
    /\ towerIdx' = 1
    /\ hist' = [hist EXCEPT !.preMotion = [t \in Targets |-> transform[t].translation]]
    /\ UNCHANGED <<towerBase, tower, target, health, bullet, lifetime, commands>>

\* ---------------------------------------------------------- move_bullets
MoveBullet(e) ==
    [transform[e] EXCEPT !.translation =
        VAdd(@, Displacement(bullet[e].direction, bullet[e].speed, delta))]

\* The entities move_bullets iterates over whose Lifetime timer has
\* reached its duration (state Expiring of the Lifetime state machine).
Expiring(S) == {e \in S \cap DOMAIN lifetime : lifetime[e].timer.finished}

\* Mutant of move_bullets_world: move_bullets also drops the Bullets whose
\* Lifetime has run out.
move_bullets_dropping ==
    LET dead == Expiring(Bullets)
        keep == entities \ dead
    IN  /\ entities' = keep
        /\ parent' = Restrict(parent, keep)
        /\ transform' = [e \in keep |-> IF e \in Bullets THEN MoveBullet(e) ELSE transform[e]]
        /\ global' = Restrict(global, keep)
        /\ bullet' = Restrict(bullet, keep)
        /\ lifetime' = Restrict(lifetime, keep)
        /\ UNCHANGED <<towerBase, tower, target, health, commands, nextId>>

\* Mutant of move_bullets_world: the normalized direction is stored back
\* into the Bullet.
move_bullets_renormalizing ==
    /\ transform' = [e \in DOMAIN transform |->
                        IF e \in Bullets THEN MoveBullet(e) ELSE transform[e]]
    /\ bullet' = [e \in Bullets |->
                     [bullet[e] EXCEPT !.direction = Displacement(@, 1, 1)]]
    /\ UNCHANGED <<entities, parent, global, towerBase, tower, target, health,
                   lifetime, commands, nextId>>

move_bullets_world ==
    /\ transform' = [e \in DOMAIN transform |->
                        IF e \in Bullets THEN MoveBullet(e) ELSE transform[e]]
    /\ UNCHANGED <<entities, parent, global, towerBase, tower, target, health,
                   bullet, lifetime, commands, nextId>>

move_bullets ==
    /\ phase = "Update"
    /\ "move_bullets" \notin ran
    /\ move_bullets_world
    /\ ran' = ran \cup {"move_bullets"}
    /\ hist' = [hist EXCEPT !.observed =
                  @ \cup {<<"move_bullets", e, tick>> : e \in Expiring(Bullets)}]
    /\ UNCHANGED <<frame, towerIdx>>

\* ---------------------------------------------------------- move_targets
\* Mutant of MoveTarget: the Target advances along its own facing, the
\* step rotated by the Target's rotation.
MoveTargetForward(e) ==
    [transform[e] EXCEPT !.translation =
        IF @ = NaN THEN NaN
        ELSE VAdd(@, RotateY(transform[e].rotation, Vec3(target[e].speed * delta, 0, 0)))]

MoveTarget(e) ==
    [transform[e] EXCEPT !.translation =
        IF @ = NaN THEN NaN ELSE Vec3(@[1] + target[e].speed * delta, @[2], @[3])]

move_targets_world ==
    /\ transform' = [e \in DOMAIN transform |->
                        IF e \in Targets THEN MoveTarget(e) ELSE transform[e]]
    /\ UNCHANGED <<entities, parent, global, towerBase, tower, target, health,
                   bullet, lifetime, commands, nextId>>

move_targets ==
    /\ phase = "Update"
    /\ "move_targets" \notin ran
    /\ move_targets_world
    /\ ran' = ran \cup {"move_targets"}
    /\ hist' = [hist EXCEPT !.observed =
                  @ \cup {<<"move_targets", e, tick>> : e \in Expiring(Targets)}]
    /\ UNCHANGED <<frame, towerIdx>>

\* -------------------------------------------------------- tower_shooting
\* Mutant of TargetPositions: the Targets' Transform is read instead.
TargetPositionsLocal == [t \in Targets |-> transform[t].translation]

\* targets: Query<&GlobalTransform, With<Target>>.
TargetPositions == [t \in Targets |-> global[t].translation]

\* Mutant of Pick: the later of two equal keys wins.
PickLast(x, y, key) == IF key[x] >= key[y] THEN y ELSE x

\* Iterator::min_by_key keeps the earlier of two elements unless the later
\* one's key is strictly smaller.
Pick(x, y, key) == IF key[x] > key[y] THEN y ELSE x

RECURSIVE MinByKeyFrom(_, _, _, _)
MinByKeyFrom(s, key, i, best) ==
    IF i > Len(s) THEN best
    ELSE MinByKeyFrom(s, key, i + 1, Pick(best, s[i], key))

MinByKey(s, key) ==
    IF s = <<>> THEN None ELSE Some(MinByKeyFrom(s, key, 2, s[1]))

BulletSpawn(w) == VAdd(global[w].translation, tower[w].bullet_offset)

\* Among the Targets at the translations pos: the closest one's translation
\* minus the spawn point, or None when there is no Target.
ClosestDirectionAt(pos, bullet_spawn) ==
    LET key == [t \in DOMAIN pos |-> DistanceKey(pos[t], bullet_spawn)]
        closest_target == MinByKey(Ascending(DOMAIN pos), key)
    IN  IF closest_target = None THEN None
        ELSE Some(VSub(pos[Unwrap(closest_target)], bullet_spawn))

ClosestDirection(bullet_spawn) == ClosestDirectionAt(TargetPositions, bullet_spawn)

\* Mutant of SpawnBullet: the Lifetime gets the cooldown's duration.
SpawnBulletShortLife(w, direction, id) ==
    [op |-> "spawn_child", parent |-> w, entity |-> id,
     transform |-> FromTranslation(tower[w].bullet_offset),
     lifetime |-> [timer |-> TimerFromSeconds(ShootingSeconds, FALSE)],
     bullet |-> [direction |-> direction, speed |-> BulletSpeed]]

\* Mutant of SpawnBullet: the Bullet's Transform is the world spawn point.
SpawnBulletWorld(w, direction, id) ==
    [op |-> "spawn_child", parent |-> w, entity |-> id,
     transform |-> FromTranslation(BulletSpawn(w)),
     lifetime |-> [timer |-> TimerFromSeconds(LifetimeSeconds, FALSE)],
     bullet |-> [direction |-> direction, speed |-> BulletSpeed]]

\* The deferred command that spawns the Bullet as a child of tower w.
SpawnBullet(w, direction, id) ==
    [op |-> "spawn_child", parent |-> w, entity |-> id,
     transform |-> FromTranslation(tower[w].bullet_offset),
     lifetime |-> [timer |-> TimerFromSeconds(LifetimeSeconds, FALSE)],
     bullet |-> [direction |-> direction, speed |-> BulletSpeed]]

\* Mutant of TowerFires: with no Target the tower fires straight ahead.
TowerFiresDefault(w, t) ==
    IF JustFinished(t)
    THEN LET direction == ClosestDirection(BulletSpawn(w))
         IN  IF direction # None
             THEN <<SpawnBullet(w, Unwrap(direction), nextId)>>
             ELSE <<SpawnBullet(w, Vec3(1, 0, 0), nextId)>>
    ELSE <<>>

\* Mutant of TowerFires: one Bullet for each cooldown period that elapsed
\* in the tick.
TowerFiresPerPeriod(w, t) ==
    IF JustFinished(t)
    THEN LET direction == ClosestDirection(BulletSpawn(w))
         IN  IF direction # None
             THEN [i \in 1..t.times_finished |->
                      SpawnBullet(w, Unwrap(direction), nextId + i - 1)]
             ELSE <<>>
    ELSE <<>>

\* What one iteration of tower_shooting's loop issues for tower w, whose
\* timer has been ticked to t: a sequence of commands.
TowerFires(w, t) ==
    IF JustFinished(t)
    THEN LET direction == ClosestDirection(BulletSpawn(w))
         IN  IF direction # None
             THEN <<SpawnBullet(w, Unwrap(direction), nextId)>>
             ELSE <<>>
    ELSE <<>>

\* Mutant of TowerTimer: the cooldown restarts on every tick.
TowerTimerRestarting(w) ==
    [TimerTick(tower[w].shooting_timer, delta) EXCEPT !.elapsed = 0]

\* Mutant of TowerTimer: every tick advances the cooldown by at least one
\* time unit more than the delta.
TowerTimerMinStep(w) == TimerTick(tower[w].shooting_timer, delta + 1)

\* tower.shooting_timer.tick(time.delta())
TowerTimer(w) == TimerTick(tower[w].shooting_timer, delta)

\* One step of tower_shooting: the loop body for the next tower; the system
\* completes with its last tower (at once when there is none).  Systems
\* with no conflicting access may run between two iterations.
tower_shooting_world ==
    /\ LET ws == Ascending(Towers)
       IN  IF towerIdx > Len(ws)
           THEN /\ ran' = ran \cup {"tower_shooting"}
                /\ UNCHANGED <<tower, commands, nextId, towerIdx>>
           ELSE LET w == ws[towerIdx]
                    t == TowerTimer(w)
                    cs == TowerFires(w, t)
                IN  /\ tower' = [tower EXCEPT ![w].shooting_timer = t]
                    /\ commands' = [commands EXCEPT !["tower_shooting"] = @ \o cs]
                    /\ nextId' = nextId + Len(cs)
                    /\ IF towerIdx = Len(ws)
                       THEN ran' = ran \cup {"tower_shooting"} /\ towerIdx' = towerIdx + 1
                       ELSE ran' = ran /\ towerIdx' = towerIdx + 1
    /\ UNCHANGED <<entities, parent, transform, global, towerBase, target,
                   health, bullet, lifetime>>

tower_shooting ==
    /\ phase = "Update"
    /\ "tower_shooting" \notin ran
    /\ tower_shooting_world
    /\ LET ws == Ascending(Towers)
       IN  IF towerIdx > Len(ws)
           THEN UNCHANGED hist
           ELSE LET w == ws[towerIdx]
                    t == TowerTimer(w)
                    cs == TowerFires(w, t)
                IN  hist' = [hist EXCEPT !.fired =
                                  @ \cup {[tower |-> w, tick |-> tick, entity |-> cs[i].entity,
                                           bullet |-> cs[i].bullet,
                                           reset |-> t.elapsed # tower[w].shooting_timer.elapsed + delta]
                                          : i \in DOMAIN cs}]
    /\ UNCHANGED frame

\* -------------------------------------------------------- bullet_despawn
\* Mutant of DespawnCommand: despawn() in place of despawn_recursive().
DespawnPlain(e) == [op |-> "despawn", entity |-> e]

\* commands.entity(entity).despawn_recursive()
DespawnCommand(e) == [op |-> "despawn_recursive", entity |-> e]

LifetimeTimer(e) == TimerTick(lifetime[e].timer, delta)

\* Mutant of Expired: a strict comparison of the clamped elapsed time.
ExpiredStrict(t) == t.elapsed > t.duration

\* if lifetime.timer.just_finished()
Expired(t) == JustFinished(t)

\* The commands bullet_despawn issues, in iteration order.
RECURSIVE DespawnCommands(_)
DespawnCommands(s) ==
    IF s = <<>> THEN <<>>
    ELSE (IF Expired(LifetimeTimer(Head(s)))
          THEN <<DespawnCommand(Head(s))>> ELSE <<>>) \o DespawnCommands(Tail(s))

\* Mutant of bullet_despawn_world: the expired entities and their children
\* are removed from the store inside the loop, not by a deferred command.
bullet_despawn_immediate ==
    LET cs == DespawnCommands(Ascending(DOMAIN lifetime))
        expired == {cs[i].entity : i \in DOMAIN cs}
        dead == expired \cup UNION {Children(e) : e \in expired}
        keep == entities \ dead
    IN  /\ entities' = keep
        /\ parent' = Restrict(parent, keep)
        /\ transform' = Restrict(transform, keep)
        /\ global' = Restrict(global, keep)
        /\ bullet' = Restrict(bullet, keep)
        /\ lifetime' = [e \in (DOMAIN lifetime) \cap keep |->
                           [lifetime[e] EXCEPT !.timer = LifetimeTimer(e)]]
        /\ UNCHANGED <<towerBase, tower, target, health, commands, nextId>>

\* What bullet_despawn does to the store: every Lifetime timer is ticked,
\* and a despawn command is queued for each one that has just finished.
bullet_despawn_world ==
    /\ lifetime' = [e \in DOMAIN lifetime |-> [lifetime[e] EXCEPT !.timer = LifetimeTimer(e)]]
    /\ commands' = [commands EXCEPT !["bullet_despawn"] =
                       @ \o DespawnCommands(Ascending(DOMAIN lifetime))]
    /\ UNCHANGED <<entities, parent, transform, global, towerBase, tower,
                   target, health, bullet, nextId>>

bullet_despawn ==
    /\ phase = "Update"
    /\ "bullet_despawn" \notin ran
    /\ bullet_despawn_world
    /\ LET cs == DespawnCommands(Ascending(DOMAIN lifetime))
           issuedNow == {cs[i].entity : i \in DOMAIN cs}
       IN  hist' = [hist EXCEPT
                 !.age = [e \in DOMAIN @ |-> IF e \in DOMAIN lifetime THEN @[e] + delta ELSE @[e]],
                 !.issued = [e \in DOMAIN @ |-> IF e \in issuedNow THEN @[e] + 1 ELSE @[e]],
                 !.expiredTick = [e \in DOMAIN @ |->
                      IF e \in DOMAIN lifetime /\ @[e] = 0 /\ hist.age[e] + delta >= lifetime[e].timer.duration
                      THEN tick ELSE @[e]]]
    /\ ran' = ran \cup {"bullet_despawn"}
    /\ UNCHANGED <<frame, towerIdx>>

\* --------------------------------------------------------- apply_buffers
\* e and its descendants, by the Parent components par of the entities ents.
RECURSIVE Closure(_, _, _)
Closure(S, par, ents) ==
    LET more == {c \in ents : par[c] \in S} \ S
    IN  IF more = {} THEN S ELSE Closure(S \cup more, par, ents)

Subtree(e, par, ents) == Closure({e} \cap ents, par, ents)

\* The entities one despawn command removes from the entities ents.
Removed(c, par, ents) ==
    IF c.op = "despawn_recursive" THEN Subtree(c.entity, par, ents)
    ELSE {c.entity} \cap ents

\* The end of the Update stage: the systems' command queues are applied,
\* tower_shooting's before bullet_despawn's (the order of registration).
apply_buffers_world ==
    /\ LET spawns == commands["tower_shooting"]
           despawns == commands["bullet_despawn"]
           new == {spawns[i].entity : i \in DOMAIN spawns}
           cmd == [e \in new |-> CHOOSE c \in Range(spawns) : c.entity = e]
           ents1 == entities \cup new
           par1 == Extend(parent, [e \in new |-> cmd[e].parent])
           dead == UNION {Removed(despawns[i], par1, ents1) : i \in DOMAIN despawns}
           ents2 == ents1 \ dead
       IN  /\ entities' = ents2
           /\ parent' = Restrict(par1, ents2)
           /\ transform' = Restrict(Extend(transform, [e \in new |-> cmd[e].transform]), ents2)
           /\ global' = Restrict(Extend(global, [e \in new |-> IDENTITY]), ents2)
           /\ bullet' = Restrict(Extend(bullet, [e \in new |-> cmd[e].bullet]), ents2)
           /\ lifetime' = Restrict(Extend(lifetime, [e \in new |-> cmd[e].lifetime]), ents2)
           /\ towerBase' = towerBase \cap ents2
           /\ tower' = Restrict(tower, ents2)
           /\ target' = Restrict(target, ents2)
           /\ health' = Restrict(health, ents2)
    /\ commands' = EmptyCommands

apply_buffers ==
    /\ phase = "Update"
    /\ ran = Systems
    /\ apply_buffers_world
    /\ LET spawns == commands["tower_shooting"]
           new == {spawns[i].entity : i \in DOMAIN spawns}
       IN  hist' = [hist EXCEPT
                 !.age = Extend(@, [e \in new |-> 0]),
                 !.issued = Extend(@, [e \in new |-> 0]),
                 !.expiredTick = Extend(@, [e \in new |-> 0]),
                 !.gone = @ \cup ((entities \cup new) \ entities')]
    /\ phase' = "PostUpdate"
    /\ UNCHANGED <<nextId, delta, tick, ran, towerIdx>>

\* ---------------------------------------------------- transform_propagate
Compose(pg, local) ==
    [translation |-> VAdd(pg.translation, RotateY(pg.rotation, local.translation)),
     rotation |-> (pg.rotation + local.rotation) % 360]

\* The GlobalTransform of e after propagation from the roots; an entity
\* whose Parent is no longer in the store is not reached and keeps its own.
RECURSIVE Propagated(_)
Propagated(e) ==
    IF parent[e] = NoEntity THEN transform[e]
    ELSE IF parent[e] \notin entities THEN global[e]
    ELSE Compose(Propagated(parent[e]), transform[e])

\* PostUpdate: every GlobalTransform is recomputed from the Transforms.
transform_propagate ==
    /\ phase = "PostUpdate"
    /\ global' = [e \in entities |-> Propagated(e)]
    /\ phase' = "Idle"
    /\ UNCHANGED <<entities, parent, transform, towerBase, tower, target,
                   health, bullet, lifetime, commands, nextId, delta, tick,
                   ran, towerIdx, hist>>

\* ------------------------------------------------------------------ Spec
Next ==
    \/ add_barrel
    \/ \E d \in Deltas : begin_frame(d)
    \/ tower_shooting
    \/ bullet_despawn
    \/ move_targets
    \/ move_bullets
    \/ apply_buffers
    \/ transform_propagate

Spec == Init /\ [][Next]_vars

\* The program as main() wires it: spawn_basic_scene on entering the
\* gameplay state, the four systems every frame, add_barrel not registered.
InitWired ==
    /\ spawn_basic_scene(BasicScene)
    /\ commands = EmptyCommands
    /\ phase = "Idle"
    /\ delta = 0
    /\ tick = 0
    /\ ran = {}
    /\ towerIdx = 1
    /\ hist = InitHist

NextWired ==
    \/ \E d \in Deltas : begin_frame(d)
    \/ tower_shooting
    \/ bullet_despawn
    \/ move_targets
    \/ move_bullets
    \/ apply_buffers
    \/ transform_propagate

SpecWired == InitWired /\ [][NextWired]_vars

\* ------------------------------------------------- the unending program
\* The frames without an end.  For the reachable states to be finitely
\* many, the history and the tick counter are left alone, a freed entity
\* index is handed out again (the allocator's free list; the generation of
\* an index is not modelled), and the Target stands still: its speed is
\* set to zero in the editor before the barrel is attached.  One Tower
\* shoots, so every step allocates at most one entity.
MaxEntities == 10

FreeId(used) == Min({i \in 1..(Cardinality(used) + 1) : i \notin used})

InitLive ==
    /\ spawn_basic_scene(BasicScene)
    /\ commands = EmptyCommands
    /\ phase = "Setup"
    /\ delta = 0
    /\ tick = 0
    /\ ran = {}
    /\ towerIdx = 1
    /\ hist = InitHist

\* The editor's inspector writes Target.speed (Target is a registered,
\* reflected type).
editor_stop_targets ==
    /\ phase = "Setup"
    /\ \E t \in Targets : target[t].speed # 0
    /\ target' = [t \in Targets |-> [target[t] EXCEPT !.speed = 0]]
    /\ UNCHANGED <<entities, parent, transform, global, towerBase, tower,
                   health, bullet, lifetime, commands, nextId, frame, ran,
                   towerIdx, hist>>

add_barrel_live ==
    /\ \A t \in Targets : target[t].speed = 0
    /\ add_barrel

begin_frame_live(d) ==
    /\ phase = "Idle"
    /\ Cardinality(entities) < MaxEntities
    /\ scene_spawner
    /\ nextId' = FreeId(entities')
    /\ delta' = d
    /\ phase' = "Update"
    /\ ran' = {}
    /\ towerIdx' = 1
    /\ UNCHANGED <<towerBase, tower, target, health, bullet, lifetime,
                   commands, tick, hist>>

tower_shooting_live ==
    /\ phase = "Update"
    /\ "tower_shooting" \notin ran
    /\ tower_shooting_world
    /\ UNCHANGED <<frame, hist>>

move_bullets_live ==
    /\ phase = "Update"
    /\ "move_bullets" \notin ran
    /\ move_bullets_world
    /\ ran' = ran \cup {"move_bullets"}
    /\ UNCHANGED <<frame, towerIdx, hist>>

apply_buffers_live ==
    /\ phase = "Update"
    /\ ran = Systems
    /\ apply_buffers_world
    /\ nextId' = FreeId(entities')
    /\ phase' = "PostUpdate"
    /\ UNCHANGED <<delta, tick, ran, towerIdx, hist>>

\* The deltas of the unending program: a frame in which no time passes,
\* the shortest frame, and a frame longer than a Lifetime.
LiveDeltas == {0, 1, MaxDelta}

\* A frame of positive delta.
positive_frame == \E d \in LiveDeltas \ {0} : begin_frame_live(d)

NextLive ==
    \/ editor_stop_targets
    \/ add_barrel_live
    \/ \E d \in LiveDeltas : begin_frame_live(d)
    \/ tower_shooting_live
    \/ bullet_despawn
    \/ move_targets
    \/ move_bullets_live
    \/ apply_buffers_live
    \/ transform_propagate

\* A step of the set-up or of a frame that has begun.
frame_step ==
    \/ editor_stop_targets
    \/ add_barrel_live
    \/ tower_shooting_live
    \/ bullet_despawn
    \/ move_targets
    \/ move_bullets_live
    \/ apply_buffers_live
    \/ transform_propagate

\* The set-up and every frame that has begun run to their end (a frame
\* runs each system once, then the stages that follow), and frames of
\* positive delta keep occurring.
SpecLive ==
    /\ InitLive
    /\ [][NextLive]_vars
    /\ WF_vars(frame_step)
    /\ SF_vars(positive_frame)

\* ---------------------------------------------------------------- claims
\* The entities that ever carried a Lifetime (the Bullets ever spawned).
Timed == DOMAIN hist.age

SpawnQueue == commands["tower_shooting"]
SpawnCmds == Range(SpawnQueue)

\* C1: for every entity with a Lifetime, bullet_despawn issues its removal
\* at most once, and has issued it exactly when the accumulated elapsed time
\* has reached the duration (so it is issued on the tick that reaches it and
\* on no later tick); an entity is removed only after that one issue.
C1_DespawnIssuedOnce ==
    \A e \in Timed :
        /\ hist.issued[e] <= 1
        /\ hist.issued[e] = 1 <=> hist.age[e] >= LifetimeSeconds
        /\ e \in hist.gone => hist.issued[e] = 1
        /\ (hist.issued[e] = 1 /\ phase # "Update") => e \in hist.gone

\* C1 witness: a Bullet expired and was removed, and bullet_despawn has run
\* again in a later tick.
C1_Witness ==
    \E e \in Timed :
        /\ e \in hist.gone
        /\ hist.issued[e] = 1
        /\ phase = "Update"
        /\ "bullet_despawn" \in ran
        /\ tick > hist.expiredTick[e]

\* C3: a Bullet (Lifetime 2.5 s) is in the store while its accumulated
\* elapsed time is below 2.5 s, and is absent from the store in every tick
\* after the one that brought the accumulated time to 2.5 s or more.
C3_PresentUntilExpiry ==
    \A e \in Timed :
        /\ hist.age[e] < LifetimeSeconds => e \in entities /\ e \in Bullets
        /\ (hist.age[e] >= LifetimeSeconds /\ tick > hist.expiredTick[e])
               => e \notin entities

\* C3 witness: a Bullet reached 2.5 s in an earlier tick and is absent while
\* the systems of a later tick run.
C3_Witness ==
    \E e \in Timed :
        /\ hist.age[e] >= LifetimeSeconds
        /\ tick > hist.expiredTick[e]
        /\ phase = "Update"
        /\ ran = Systems
        /\ e \notin entities

\* C4: with no Target in the store no Bullet is ever created or queued, and
\* no tower's elapsed cooldown is below zero.
C4_NoTargetNoBullet ==
    Targets = {} =>
        /\ Bullets = {}
        /\ SpawnQueue = <<>>
        /\ Timed = {}
        /\ \A w \in Towers : tower[w].shooting_timer.elapsed >= 0

\* C4 witness: no Target, and the last tick's tower_shooting has seen a
\* tower's cooldown complete.
C4_Witness ==
    /\ Targets = {}
    /\ tick = MaxTicks
    /\ "tower_shooting" \in ran
    /\ \E w \in Towers : JustFinished(tower[w].shooting_timer)

\* C5: every Bullet that tower_shooting queues is aimed at a Target whose
\* world translation is at minimum distance from the spawn point, and at the
\* first such Target in iteration order.
C5_AimsAtFirstClosest ==
    \A c \in SpawnCmds :
        LET sp == VAdd(global[c.parent].translation, tower[c.parent].bullet_offset)
            dist(t) == LengthSquared(VSub(global[t].translation, sp))
        IN  \E t \in Targets :
                /\ c.bullet.direction = VSub(global[t].translation, sp)
                /\ \A u \in Targets : dist(t) <= dist(u)
                /\ \A u \in Targets : u < t => dist(u) > dist(t)

\* C5 witness: a Bullet is queued while two Targets at different
\* translations are both at the minimum distance from its spawn point.
C5_Witness ==
    \E c \in SpawnCmds :
        LET sp == VAdd(global[c.parent].translation, tower[c.parent].bullet_offset)
            dist(t) == LengthSquared(VSub(global[t].translation, sp))
        IN  \E t, u \in Targets :
                /\ t < u
                /\ global[t].translation # global[u].translation
                /\ dist(t) = dist(u)
                /\ \A v \in Targets : dist(t) <= dist(v)

\* C5 second case: the closest Target is not the first in iteration order.
C5_WitnessNotFirst ==
    \E c \in SpawnCmds :
        LET sp == VAdd(global[c.parent].translation, tower[c.parent].bullet_offset)
            dist(t) == LengthSquared(VSub(global[t].translation, sp))
        IN  \E t \in Targets :
                /\ c.bullet.direction = VSub(global[t].translation, sp)
                /\ \E u \in Targets : u < t /\ dist(u) > dist(t)

\* C2 as stated: no system other than bullet_despawn ever iterates over an
\* entity whose Lifetime timer has reached its duration.
C2_NeverObservedExpiring == hist.observed = {}

\* C2 amended: an entity whose Lifetime timer has reached its duration is
\* observed by another system only in the tick in which it expired (by
\* move_bullets, running after bullet_despawn), and no such entity is in the
\* store when a tick's bullet_despawn has not run yet.
C2_ObservedOnlyInExpiryTick ==
    /\ \A o \in hist.observed : o[1] = "move_bullets" /\ o[3] = hist.expiredTick[o[2]]
    /\ (phase = "Idle" \/ (phase = "Update" /\ "bullet_despawn" \notin ran))
           => Expiring(entities) = {}

\* C2 witness: move_bullets observed an expired Bullet in the tick of its
\* expiry, and all systems of a later tick have run.
C2_Witness ==
    \E o \in hist.observed :
        /\ o[2] \in hist.gone
        /\ tick > o[3]
        /\ phase = "Update"
        /\ ran = Systems

\* The cooldown of tower w was reset in this step: its elapsed time is not
\* the old one advanced by the step's delta.
CooldownReset(w) ==
    /\ tower'[w].shooting_timer # tower[w].shooting_timer
    /\ tower'[w].shooting_timer.elapsed # tower[w].shooting_timer.elapsed + delta

\* Tower w queued a Bullet in this step.
FiredInStep(w) ==
    /\ Len(commands'["tower_shooting"]) = Len(SpawnQueue) + 1
    /\ commands'["tower_shooting"][Len(SpawnQueue) + 1].parent = w

\* C6 as stated: a tower's cooldown is reset only in a step in which that
\* tower fires.
C6_ResetOnlyWhenFiring ==
    [][\A w \in Towers : CooldownReset(w) => FiredInStep(w)]_vars

\* C6 amended: the cooldown's duration never changes, and the cooldown is
\* reset exactly in the steps of tower_shooting in which the elapsed time
\* reaches the duration, whether or not the tower fires.
C6_ResetOnlyOnCompletion ==
    [][\A w \in Towers :
          /\ tower'[w].shooting_timer.duration = tower[w].shooting_timer.duration
          /\ CooldownReset(w) =>
                /\ tower[w].shooting_timer.elapsed + delta >= tower[w].shooting_timer.duration
                /\ JustFinished(tower'[w].shooting_timer)
          /\ (tower'[w] # tower[w] /\ ~CooldownReset(w)) =>
                /\ tower[w].shooting_timer.elapsed + delta < tower[w].shooting_timer.duration
                /\ ~FiredInStep(w)]_vars

\* C6 witness: tower_shooting has completed, a tower's cooldown was reset in
\* this tick and the tower fired nothing in it.
C6_Witness ==
    /\ phase = "Update"
    /\ "tower_shooting" \in ran
    /\ \E w \in Towers :
          /\ JustFinished(tower[w].shooting_timer)
          /\ \A f \in hist.fired : ~(f.tower = w /\ f.tick = tick)
          /\ \A c \in SpawnCmds : c.parent # w

\* C7: no Bullet in the store has the zero vector as its direction.
C7_DirectionNonZero == \A b \in Bullets : bullet[b].direction # ZERO

\* The step completes system s.
Completes(s) == s \notin ran /\ s \in ran'

\* C8: a Bullet enters the store only by a spawn that tower_shooting queued
\* and leaves it only by a despawn that bullet_despawn queued; the steps of
\* move_bullets and move_targets change neither the entities, nor the
\* Bullets, nor the command queues.
C8_BulletsBySpawnAndDespawn ==
    [][/\ \A e \in (DOMAIN bullet') \ Bullets :
             \E c \in SpawnCmds : c.op = "spawn_child" /\ c.entity = e
       /\ \A e \in Bullets \ (DOMAIN bullet') :
             \E c \in Range(commands["bullet_despawn"]) : c.entity = e
       /\ (Completes("move_bullets") \/ Completes("move_targets")) =>
             /\ entities' = entities
             /\ DOMAIN bullet' = Bullets
             /\ commands' = commands]_vars

\* C8 witness: one Bullet has been removed and another is in the store.
C8_Witness ==
    /\ \E e \in Timed : e \in hist.gone
    /\ Bullets # {}
    /\ {"move_bullets", "move_targets"} \subseteq ran

\* The Targets' translations after move_targets has applied the tick's delta
\* to the translations hist.preMotion of the tick's beginning.
PostMotion ==
    [t \in DOMAIN hist.preMotion |->
        Vec3(hist.preMotion[t][1] + target[t].speed * delta,
             hist.preMotion[t][2], hist.preMotion[t][3])]

\* C9: within a tick, the Bullets queued by all towers are aimed by one and
\* the same set of Target positions: those of before move_targets, or those
\* of after it.
C9_UniformTargetPositions ==
    phase = "Update" =>
        \E P \in {hist.preMotion, PostMotion} :
            \A c \in SpawnCmds :
                Some(c.bullet.direction) =
                    ClosestDirectionAt(P, VAdd(global[c.parent].translation,
                                               tower[c.parent].bullet_offset))

\* C9 witness: two towers have fired in a tick with a positive delta in which
\* move_targets has run, and the two sets of positions give the second
\* tower different directions.
C9_Witness ==
    /\ phase = "Update"
    /\ delta > 0
    /\ "move_targets" \in ran
    /\ Len(SpawnQueue) = 2
    /\ SpawnQueue[1].parent # SpawnQueue[2].parent
    /\ LET sp == VAdd(global[SpawnQueue[2].parent].translation,
                      tower[SpawnQueue[2].parent].bullet_offset)
       IN  ClosestDirectionAt(hist.preMotion, sp) # ClosestDirectionAt(PostMotion, sp)

\* C10: removal is atomic over the subtree: no entity in the store has a
\* parent that is not in the store, so no descendant of a removed entity is
\* ever in the store.
C10_SubtreeRemovedWhole ==
    \A e \in entities :
        /\ parent[e] # NoEntity => parent[e] \in entities
        /\ parent[e] \notin hist.gone

\* C10 witness: a Bullet and its child have been removed, and the systems
\* of a later tick run.
C10_Witness ==
    /\ phase = "Update"
    /\ \E e \in Timed : \E c \in hist.gone \ Timed :
          /\ e \in hist.gone
          /\ tick > hist.expiredTick[e]

\* C11: every Bullet in the store has the direction and the speed it was
\* spawned with, whatever systems have run since.
C11_BulletImmutable ==
    \A b \in Bullets :
        \E f \in hist.fired : f.entity = b /\ bullet[b] = f.bullet

\* C11 witness: a Bullet that has aged in an earlier tick and has been moved
\* away from its spawn translation is still in the store after all four
\* systems have run again.
C11_Witness ==
    /\ phase = "Update"
    /\ ran = Systems
    /\ \E b \in Bullets :
          /\ hist.age[b] > delta
          /\ delta > 0
          /\ transform[b].translation # tower[parent[b]].bullet_offset

\* C12: in a tick whose delta is zero no timer completes: tower_shooting
\* queues and spawns no Bullet and bullet_despawn queues and removes no
\* entity, and no timer ticked in it reports just_finished.
C12_ZeroDeltaNoCompletion ==
    (phase \in {"Update", "PostUpdate"} /\ delta = 0) =>
        /\ SpawnQueue = <<>>
        /\ commands["bullet_despawn"] = <<>>
        /\ \A f \in hist.fired : f.tick # tick
        /\ \A e \in Timed : hist.expiredTick[e] # tick
        /\ \A i \in 1..(towerIdx - 1) :
               i <= Len(Ascending(Towers)) =>
                   ~JustFinished(tower[Ascending(Towers)[i]].shooting_timer)
        /\ "bullet_despawn" \in ran =>
               \A e \in DOMAIN lifetime : ~JustFinished(lifetime[e].timer)

\* C12 witness: all systems have run in a tick of delta zero while a tower's
\* cooldown and a Bullet's Lifetime are both under way.
C12_Witness ==
    /\ phase = "Update"
    /\ delta = 0
    /\ ran = Systems
    /\ \E w \in Towers : tower[w].shooting_timer.elapsed > 0
    /\ \E e \in DOMAIN lifetime : lifetime[e].timer.elapsed > 0

\* The towers tower_shooting has already ticked in the current tick.
TickedTowers ==
    {Ascending(Towers)[i] : i \in 1..(towerIdx - 1)} \cap Towers

\* C13: a tower's cooldown ticked by a positive multiple k of its duration
\* reports completion (k times) on that tick, and in every state the elapsed
\* cooldown of every tower is in [0, duration).
C13_RepeatingTimerWraps ==
    /\ \A w \in Towers :
          /\ tower[w].shooting_timer.elapsed >= 0
          /\ tower[w].shooting_timer.elapsed < tower[w].shooting_timer.duration
    /\ phase = "Update" =>
          \A w \in TickedTowers :
              (delta > 0 /\ delta % tower[w].shooting_timer.duration = 0) =>
                  /\ JustFinished(tower[w].shooting_timer)
                  /\ tower[w].shooting_timer.times_finished
                         = delta \div tower[w].shooting_timer.duration

\* C13 witness: a tower whose cooldown was half-way has been ticked by twice
\* its duration.
C13_Witness ==
    /\ phase = "Update"
    /\ \E w \in TickedTowers :
          /\ delta = 2 * tower[w].shooting_timer.duration
          /\ tower[w].shooting_timer.elapsed > 0

\* The Bullets spawned in the current tick, once its commands are applied.
JustSpawned == {f \in hist.fired : f.tick = tick}

\* C14: when a tick's commands have been applied, every Bullet spawned in it
\* is in the store as a child of the tower that fired it, with direction =
\* the closest Target's world translation minus the spawn point, speed 2.5,
\* local translation = the tower's bullet_offset, and a non-repeating
\* Lifetime timer of duration 2.5 s and elapsed 0.
C14_SpawnedBulletShape ==
    phase = "PostUpdate" =>
        \A f \in JustSpawned :
            LET b == f.entity
                w == f.tower
                sp == VAdd(global[w].translation, tower[w].bullet_offset)
                dist(t) == LengthSquared(VSub(global[t].translation, sp))
            IN  /\ b \in entities
                /\ b \in Bullets
                /\ parent[b] = w
                /\ \E t \in Targets :
                      /\ bullet[b].direction = VSub(global[t].translation, sp)
                      /\ \A u \in Targets : dist(t) <= dist(u)
                /\ bullet[b].speed = BulletSpeed
                /\ transform[b].translation = tower[w].bullet_offset
                /\ b \in DOMAIN lifetime
                /\ lifetime[b].timer.duration = LifetimeSeconds
                /\ lifetime[b].timer.elapsed = 0
                /\ ~lifetime[b].timer.repeating
                /\ ~lifetime[b].timer.finished

\* C14 witness: two towers at different places have each spawned a Bullet in
\* the tick whose commands have just been applied.
C14_Witness ==
    /\ phase = "PostUpdate"
    /\ \E f, g \in JustSpawned :
          /\ f.tower # g.tower
          /\ global[f.tower].translation # ZERO
          /\ f.entity \in Bullets
          /\ g.entity \in Bullets

DespawnQueue == commands["bullet_despawn"]

\* C15: spawns and despawns are deferred.  While the systems of a tick run
\* the set of entities, and of the entities carrying each component, does
\* not change; a queued spawn's entity is not in the store and a queued
\* despawn's entity still is; the queues take effect in the one step that
\* follows the completion of all the systems.
C15_Deferred ==
    [][phase = "Update" =>
          /\ \A c \in SpawnCmds : c.entity \notin entities
          /\ \A c \in Range(DespawnQueue) : c.entity \in entities
          /\ phase' = "Update" =>
                /\ entities' = entities
                /\ DOMAIN bullet' = DOMAIN bullet
                /\ DOMAIN lifetime' = DOMAIN lifetime
                /\ DOMAIN tower' = DOMAIN tower
                /\ DOMAIN target' = DOMAIN target
                /\ DOMAIN transform' = DOMAIN transform
          /\ phase' # "Update" =>
                /\ ran = Systems
                /\ \A c \in SpawnCmds : c.entity \in entities'
                /\ \A c \in Range(DespawnQueue) : c.entity \notin entities']_vars

\* C15 witness: tower_shooting is between two towers of its loop with a
\* spawn queued, and a despawn is queued too.
C15_Witness ==
    /\ phase = "Update"
    /\ "tower_shooting" \notin ran
    /\ towerIdx = 2
    /\ Len(SpawnQueue) = 1
    /\ DespawnQueue # <<>>

\* C16: the step of move_targets adds speed * delta to the x translation of
\* every entity carrying Target and changes nothing else: the y and z
\* translation and the rotation of a Target, the whole transform of every
\* other entity, and every other component stay as they were.
C16_MoveTargetsOnlyX ==
    [][Completes("move_targets") =>
          /\ DOMAIN transform' = DOMAIN transform
          /\ \A e \in DOMAIN transform :
                IF e \in DOMAIN target
                THEN /\ transform'[e].translation =
                            Vec3(transform[e].translation[1] + target[e].speed * delta,
                                 transform[e].translation[2],
                                 transform[e].translation[3])
                     /\ transform'[e].rotation = transform[e].rotation
                ELSE transform'[e] = transform[e]
          /\ UNCHANGED <<entities, parent, global, towerBase, tower, target,
                         health, bullet, lifetime, commands, nextId>>]_vars

\* C16 witness: move_targets has run in a tick of positive delta on a
\* rotated Target off the x axis, with a Bullet in the store beside it.
C16_Witness ==
    /\ phase = "Update"
    /\ "move_targets" \in ran
    /\ delta > 0
    /\ Bullets # {}
    /\ \E t \in Targets :
          /\ transform[t].rotation # 0
          /\ transform[t].translation[3] # 0
          /\ transform[t].translation[1] # hist.preMotion[t][1]

\* C17: in the program as wired no entity ever carries Tower, so no spawn
\* is ever queued and no Bullet or Lifetime is ever in the store.
C17_WiredNoTowerNoBullet ==
    /\ Towers = {}
    /\ Bullets = {}
    /\ DOMAIN lifetime = {}
    /\ SpawnQueue = <<>>
    /\ hist.fired = {}
    /\ Timed = {}

\* C17 witness: the wired program has run a second tick whose delta spans a
\* whole cooldown, with the Target and the TowerBase in the store.
C17_Witness ==
    /\ phase = "PostUpdate"
    /\ tick >= 2
    /\ delta >= ShootingSeconds
    /\ Targets # {}
    /\ towerBase # {}
    /\ hist.preMotion # [t \in Targets |-> transform[t].translation]

\* The Bullets tower w has created in tick k.
CreatedIn(w, k) == {f.entity : f \in {g \in hist.fired : g.tower = w /\ g.tick = k}}

\* C18: a tower creates at most one Bullet in a tick, however many cooldown
\* periods the tick's delta spans.
C18_OneBulletPerTowerPerTick ==
    \A w \in Towers : \A k \in 1..tick : Cardinality(CreatedIn(w, k)) <= 1

\* C18 witness: a tick whose delta spans two cooldown periods has been
\* applied, and the tower whose timer finished twice in it has its one new
\* Bullet in the store.
C18_Witness ==
    /\ phase = "PostUpdate"
    /\ \E w \in Towers :
          /\ tower[w].shooting_timer.times_finished >= 2
          /\ CreatedIn(w, tick) # {}
          /\ CreatedIn(w, tick) \subseteq Bullets

\* The entity indices in use in the unending program.
LiveIds == 1..(MaxEntities + 1)

\* The bound MaxEntities never stops a frame, and an index is free when it
\* is handed out.
LiveSound ==
    /\ entities \subseteq LiveIds
    /\ phase = "Idle" =>
          /\ Cardinality(entities) < MaxEntities
          /\ Len(SceneLess) <= 1
          /\ nextId \notin entities
    /\ (phase = "Update" /\ "tower_shooting" \notin ran) => nextId \notin entities

\* C19: in the unending program, with frames of positive delta recurring,
\* no Bullet stays in the store forever: every entity index is again and
\* again not a Bullet's, so a Bullet in the store is eventually absent.
C19_BulletEventuallyRemoved ==
    /\ []LiveSound
    /\ \A b \in LiveIds : []<>(b \notin Bullets)

\* C19 witness: a Bullet is in the store above a freed index, so an earlier
\* Bullet has been removed while the tower went on shooting.
C19_Witness ==
    /\ phase = "Idle"
    /\ \E b \in Bullets : \E i \in 1..(b - 1) : i \notin entities

====
